---- MODULE Spec2Model ----
(***************************************************************************)
(* A model of the bp-nmt fragment: the Transformer decoder stack with its  *)
(* state dictionary and layer cache (onmt/decoders/transformer.py), the    *)
(* encoder-decoder wrapper NMTModel (onmt/models/model.py) and the mail    *)
(* notification script (mail.py).                                          *)
(*                                                                         *)
(* Tensors are modelled symbolically.  A token tensor (src, tgt) is the    *)
(* sequence of its time steps, one token per step (the batch and feature   *)
(* axes, which no statement of the modelled code slices, are abstracted).  *)
(* A float tensor is a record of its axis order, its length along the time *)
(* axis and the trace of modules applied along the residual stream.        *)
(* Python exceptions are outcomes: a call yields exc = "none" or the name  *)
(* of the exception it raised.                                             *)
(***************************************************************************)
EXTENDS Integers, Sequences, FiniteSets, TLC

VARIABLES
    num_layers,   \* len(self.transformer_layers) of the constructed stacks
    state,        \* module name -> self.state of that module (a dict)
    pc,           \* "idle", or how the last call ended: "returned" / "raised"
    frame,        \* NMTModel.forward: arguments, locals and call log of the call
    last,         \* direct TransformerDecoder call: arguments and result
    mail_pc,      \* mail.py: the statement main() is at
    argv,         \* mail.py: sys.argv
    message,      \* mail.py: the MIMEText object
    mail_log      \* mail.py: prints and SMTP calls made so far, in order

vars == <<num_layers, state, pc, frame, last, mail_pc, argv, message, mail_log>>

\* ------------------------------------------------------------------ bounds
MaxLen == 2        \* longest src / tgt, in time steps
MaxLayers == 2     \* deepest stack constructed
MaxStep == 1       \* largest decoding step passed to forward
MaxArgLen == 2     \* longest command-line argument, in characters

\* ------------------------------------------------------------------ values
None == [kind |-> "None"]

PyInt(k) == [kind |-> "int", val |-> k]

Vocab == {0, 1}

pad_idx == 0

Tokens == UNION {[1..n -> Vocab] : n \in 1..MaxLen}

Steps == {None} \cup {PyInt(k) : k \in 0..MaxStep}

CodeTypes == {"dec", "enc"}

Modules == {"encoder", "decoder"}

EmptyDict == [k \in {} |-> None]

DictSet(d, key, v) == [k \in DOMAIN d \cup {key} |-> IF k = key THEN v ELSE d[k]]

Tensor(shape, len, ops) == [kind |-> "tensor", shape |-> shape, len |-> len, ops |-> ops]

Op(name, layer, mask, memory, cache) ==
    [op |-> name, layer |-> layer, mask |-> mask, memory |-> memory, cache |-> cache]

Apply(t, o) == [t EXCEPT !.ops = Append(@, o)]

\* x.transpose(0, 1)
Transpose01(t) == [t EXCEPT !.shape = <<t.shape[2], t.shape[1]>> \o SubSeq(t.shape, 3, Len(t.shape))]

\* words.data.eq(pad_idx).unsqueeze(1): one row, True where the token is padding
PadMask(words) == [kind |-> "mask", rows |-> <<[k \in 1..Len(words) |-> words[k] = pad_idx]>>]

\* torch.gt(tgt_pad_mask + triu(ones, 1), 0): position j is hidden from i when
\* it is padding or lies in the future
FutureMask(tgt_pad_mask) ==
    LET tgt_len == Len(tgt_pad_mask.rows[1])
    IN [kind |-> "mask",
        rows |-> [i \in 1..tgt_len |-> [j \in 1..tgt_len |-> tgt_pad_mask.rows[1][j] \/ j > i]]]

\* self.embeddings(tgt, step=step); the assertion of line 212 fixes its rank
Embeddings(tgt, step) ==
    Tensor(<<"len", "batch", "dim">>, Len(tgt), <<Op("embeddings", -1, None, None, None)>>)

\* the memory bank an encoder pass over a source of n steps hands to a decoder
MemoryBank(n) ==
    Tensor(<<"len", "batch", "dim">>, n, <<Op("memory_bank", -1, None, None, None)>>)

\* ------------------------------------------------- TransformerDecoderLayer
Sublayers_ContextFirst(i, inputs, memory_bank, src_pad_mask, tgt_pad_mask, code_type, layer_cache, step) ==
    LET mid == Apply(inputs, Op("context_attn", i, src_pad_mask, memory_bank, layer_cache))
        query == Apply(mid, Op("self_attn", i, None, None, layer_cache))
    IN Apply(query, Op("feed_forward", i, None, None, None))

TransformerDecoderLayer_forward(i, inputs, memory_bank, src_pad_mask, tgt_pad_mask, code_type, layer_cache, step) ==
    LET dec_mask == IF step = None
                    THEN IF code_type = "dec" THEN FutureMask(tgt_pad_mask) ELSE tgt_pad_mask
                    ELSE None
        input_norm == Apply(inputs, Op("layer_norm_1", i, None, None, None))
        attn == Apply(input_norm, Op("self_attn", i, dec_mask, None, layer_cache))
        query == Apply(attn, Op("drop_residual", i, None, None, None))
        mid == IF code_type = "dec"
               THEN LET query_norm == Apply(query, Op("layer_norm_2", i, None, None, None))
                        ctx == Apply(query_norm,
                                     Op("context_attn", i, src_pad_mask, memory_bank, layer_cache))
                    IN Apply(ctx, Op("drop_residual", i, None, None, None))
               ELSE query
    IN Apply(mid, Op("feed_forward", i, None, None, None))

\* ------------------------------------------------------ TransformerDecoder
LayerKey(i) == <<"layer", i>>

LayerCacheInit ==
    [memory_keys |-> None, memory_values |-> None, self_keys |-> None, self_values |-> None]

\* def _init_cache(self), called with the positional arguments args
init_cache(st, n, args) ==
    IF Len(args) # 0
    THEN [exc |-> "TypeError", st |-> st]
    ELSE [exc |-> "none",
          st |-> DictSet(st, "cache",
                         [kind |-> "dict",
                          entries |-> [k \in {LayerKey(i) : i \in 0..(n - 1)} |-> LayerCacheInit]])]

init_state(st, src) == DictSet(DictSet(st, "src", src), "cache", None)

\* self.state["src"] = self.state["src"].detach()
detach_state(st) ==
    IF "src" \in DOMAIN st THEN [exc |-> "none", st |-> st] ELSE [exc |-> "KeyError", st |-> st]

\* self.state["cache"]["layer_{}".format(i)] if step is not None else None
LayerCacheLookup(st, i, step) ==
    IF step = None THEN [exc |-> "none", val |-> None]
    ELSE IF "cache" \notin DOMAIN st THEN [exc |-> "KeyError", val |-> None]
    ELSE IF st["cache"].kind = "None" THEN [exc |-> "TypeError", val |-> None]
    ELSE IF LayerKey(i) \notin DOMAIN st["cache"].entries THEN [exc |-> "KeyError", val |-> None]
    ELSE [exc |-> "none", val |-> [key |-> LayerKey(i), slots |-> st["cache"].entries[LayerKey(i)]]]

\* for i, layer in enumerate(self.transformer_layers): output = layer(output, ...)
RECURSIVE transformer_layers(_, _, _, _, _, _, _, _, _)
transformer_layers(i, n, st, output, src_memory_bank, src_pad_mask, tgt_pad_mask, code_type, step) ==
    IF i >= n THEN [exc |-> "none", output |-> output, caches |-> <<>>]
    ELSE LET layer_cache == LayerCacheLookup(st, i, step)
         IN IF layer_cache.exc # "none"
            THEN [exc |-> layer_cache.exc, output |-> output, caches |-> <<>>]
            ELSE LET out == TransformerDecoderLayer_forward(
                                i, output, src_memory_bank, src_pad_mask, tgt_pad_mask,
                                code_type, layer_cache.val, step)
                     rest == transformer_layers(i + 1, n, st, out, src_memory_bank,
                                                src_pad_mask, tgt_pad_mask, code_type, step)
                 IN [exc |-> rest.exc, output |-> rest.output,
                     caches |-> <<layer_cache.val>> \o rest.caches]

Raised(exc, st, read_src) ==
    [exc |-> exc, st |-> st, out |-> None, read_src |-> read_src,
     src_memory_bank |-> None, src_pad_mask |-> None, caches |-> <<>>]

\* TransformerDecoder.forward(tgt, memory_bank, code_type, step)
forward(st, n, tgt, memory_bank, code_type, step) ==
    LET c == IF step = PyInt(0) THEN init_cache(st, n, <<memory_bank>>)
                              ELSE [exc |-> "none", st |-> st]
    IN IF c.exc # "none" THEN Raised(c.exc, c.st, FALSE)
       ELSE IF code_type = "dec" /\ "src" \notin DOMAIN c.st THEN Raised("KeyError", c.st, TRUE)
       ELSE IF code_type = "dec" /\ memory_bank.kind = "None"
            THEN Raised("AttributeError", c.st, TRUE)
       ELSE LET src_memory_bank == IF code_type = "dec" THEN Transpose01(memory_bank) ELSE None
                src_pad_mask == IF code_type = "dec" THEN PadMask(c.st["src"]) ELSE None
                emb == Embeddings(tgt, step)
                output == Transpose01(emb)
                tgt_pad_mask == PadMask(tgt)
                r == transformer_layers(0, n, c.st, output, src_memory_bank, src_pad_mask,
                                        tgt_pad_mask, code_type, step)
            IN IF r.exc # "none" THEN Raised(r.exc, c.st, code_type = "dec")
               ELSE [exc |-> "none", st |-> c.st,
                     out |-> Transpose01(Apply(r.output, Op("layer_norm", n, None, None, None))),
                     read_src |-> (code_type = "dec"),
                     src_memory_bank |-> src_memory_bank,
                     src_pad_mask |-> src_pad_mask,
                     caches |-> r.caches]

\* ---------------------------------------------------------------- NMTModel
\* x[1:]
ExcludeFirst(t) == SubSeq(t, 2, Len(t))

\* x[:-1]
ExcludeLast(t) == SubSeq(t, 1, Len(t) - 1)

Event(module, op, code_type, arg, memory_bank, r) ==
    [module |-> module, op |-> op, code_type |-> code_type, arg |-> arg,
     memory_bank |-> memory_bank, exc |-> r.exc, read_src |-> r.read_src,
     src_pad_mask |-> r.src_pad_mask]

\* the locals of NMTModel.forward on entry, with the modules' states
Enter(st, src, tgt, bptt) ==
    [src |-> src, tgt |-> tgt, bptt |-> bptt, state0 |-> st, state |-> st,
     exc |-> "none", calls |-> <<>>,
     tgt_p |-> None, memory_bank_p |-> None, dec_out_p |-> None,
     src_b |-> None, memory_bank_b |-> None, dec_out_b |-> None, ret |-> None]

\* self.<module>(tgt, memory_bank, code_type=code_type), its result assigned to
\* the local variable `local` unless the call raised
ModuleForward(M, module, tgt, memory_bank, code_type, local) ==
    CHOOSE M1 \in {[M EXCEPT !.state[module] = r.st, !.exc = r.exc, ![local] = r.out,
                             !.calls = Append(@, Event(module, "forward", code_type,
                                                       tgt, memory_bank, r))]
                   : r \in {forward(M.state[module], num_layers, tgt, memory_bank,
                                    code_type, None)}} : TRUE

\* self.<module>.init_state(src)
ModuleInitState(M, module, src) ==
    [M EXCEPT !.state[module] = init_state(@, src),
              !.calls = Append(@, Event(module, "init_state", "-", src, None,
                                        Raised("none", M.state[module], FALSE)))]

stmt_tgt_p(M) == [M EXCEPT !.tgt_p = ExcludeLast(M.tgt)]

stmt_memory_bank_p(M) == ModuleForward(M, "encoder", M.src, None, "enc", "memory_bank_p")

stmt_decoder_init_state_Always(M) == ModuleInitState(M, "decoder", M.src)

stmt_decoder_init_state(M) ==
    IF M.bptt = FALSE THEN ModuleInitState(M, "decoder", M.src) ELSE M

stmt_dec_out_p(M) ==
    ModuleForward(M, "decoder", M.tgt_p, M.memory_bank_p, "dec", "dec_out_p")

stmt_src_b(M) == [M EXCEPT !.src_b = ExcludeLast(M.src)]

stmt_memory_bank_b(M) == ModuleForward(M, "decoder", M.tgt, None, "enc", "memory_bank_b")

stmt_encoder_init_state(M) ==
    IF M.bptt = FALSE THEN ModuleInitState(M, "encoder", M.tgt) ELSE M

stmt_dec_out_b(M) ==
    ModuleForward(M, "encoder", M.src_b, M.memory_bank_b, "dec", "dec_out_b")

stmt_return(M) == [M EXCEPT !.ret = <<M.dec_out_p, M.dec_out_b>>]

\* the statement of NMTModel.forward at a source line
Statement(M, line) ==
    CASE line = 40 -> stmt_tgt_p(M)
      [] line = 41 -> stmt_memory_bank_p(M)
      [] line = 42 -> stmt_decoder_init_state(M)
      [] line = 44 -> stmt_dec_out_p(M)
      [] line = 46 -> stmt_src_b(M)
      [] line = 47 -> stmt_memory_bank_b(M)
      [] line = 48 -> stmt_encoder_init_state(M)
      [] line = 50 -> stmt_dec_out_b(M)
      [] line = 51 -> stmt_return(M)

\* a statement runs only when no earlier one raised
Then(M, line) ==
    CHOOSE M1 \in {IF m.exc = "none" THEN Statement(m, line) ELSE m : m \in {M}} : TRUE

\* NMTModel.forward(src, tgt, bptt): the statements of lines 40 to 51 in order,
\* innermost first
NMTModel_forward(st, src, tgt, bptt) ==
    Then(Then(Then(Then(Then(Then(Then(Then(Then(
        Enter(st, src, tgt, bptt),
        40), 41), 42), 44), 46), 47), 48), 50), 51)

\* ------------------------------------------------------------------ mail.py
Chars == {65, 233, 8364}     \* code points taking one, two and three bytes in UTF-8

Script == <<109, 97, 105, 108>>

Args == UNION {[1..n -> Chars] : n \in 0..MaxArgLen}

mail_host == "smtp.qq.com"

mail_user == "1347481725@qq.com"

sender == "1347481725@qq.com"

receivers == <<"liuyu@hit-mtlab.net">>

\* str.encode('utf-8') of one code point
Utf8Char(c) ==
    IF c < 128 THEN <<c>>
    ELSE IF c < 2048 THEN <<192 + (c \div 64), 128 + (c % 64)>>
    ELSE <<224 + (c \div 4096), 128 + ((c \div 64) % 64), 128 + (c % 64)>>

RECURSIVE Utf8Encode(_)
Utf8Encode(text) ==
    IF text = <<>> THEN <<>> ELSE Utf8Char(Head(text)) \o Utf8Encode(Tail(text))

\* base64 of up to three bytes: four symbols, 64 standing for the padding '='
Base64Group(b) ==
    LET v == b[1] * 65536 + (IF Len(b) > 1 THEN b[2] * 256 ELSE 0) + (IF Len(b) > 2 THEN b[3] ELSE 0)
    IN <<v \div 262144, (v \div 4096) % 64,
         IF Len(b) > 1 THEN (v \div 64) % 64 ELSE 64,
         IF Len(b) > 2 THEN v % 64 ELSE 64>>

RECURSIVE Base64Encode(_)
Base64Encode(bytes) ==
    IF bytes = <<>> THEN <<>>
    ELSE IF Len(bytes) <= 3 THEN Base64Group(bytes)
    ELSE Base64Group(SubSeq(bytes, 1, 3)) \o Base64Encode(SubSeq(bytes, 4, Len(bytes)))

\* MIMEText(_text, _subtype, _charset)
MIMEText(text, subtype, charset) ==
    [payload |-> text, subtype |-> subtype, charset |-> charset, headers |-> <<>>]

\* message[name] = Header(value, 'utf-8')
SetHeader(msg, name, value) ==
    [msg EXCEPT !.headers = Append(@, [name |-> name, value |-> value, charset |-> "utf-8"])]

\* message.as_string(): a utf-8 text part is transferred base64-encoded
as_string(msg) ==
    [headers |-> msg.headers, subtype |-> msg.subtype, charset |-> msg.charset,
     cte |-> "base64", body |-> Base64Encode(Utf8Encode(msg.payload))]

Outcomes == {"ok", "SMTPException", "OSError"}

AfterTry_Ignore(outcome, next) == next

\* inside try: go on, or to the except clause, or out of main with the exception
AfterTry(outcome, next) ==
    IF outcome = "ok" THEN next
    ELSE IF outcome = "SMTPException" THEN "L37"
    ELSE "crash"

Logged(call, outcome, data) == [call |-> call, outcome |-> outcome, data |-> data]

Argvs == {<<Script>>} \cup {<<Script, a>> : a \in Args}

\* print(sys.argv[1])
MailPrintArg ==
    /\ mail_pc = "L22"
    /\ IF Len(argv) < 2
       THEN /\ mail_log' = Append(mail_log, Logged("raise", "IndexError", None))
            /\ mail_pc' = "crash"
       ELSE /\ mail_log' = Append(mail_log, Logged("print", "ok", [what |-> "argv1", text |-> argv[2]]))
            /\ mail_pc' = "L24"
    /\ UNCHANGED <<num_layers, state, pc, frame, last, argv, message>>

\* message = MIMEText(sys.argv[1], 'plain', 'utf-8') and its three headers
MailBuildMessage ==
    /\ mail_pc = "L24"
    /\ message' = SetHeader(SetHeader(SetHeader(MIMEText(argv[2], "plain", "utf-8"),
                                                "From", "Best_BLEU"),
                                      "To", "BLEU"),
                            "Subject", "Best_BLEU")
    /\ mail_pc' = "L32"
    /\ UNCHANGED <<num_layers, state, pc, frame, last, argv, mail_log>>

\* smtpObj = smtplib.SMTP(); smtpObj.connect(mail_host, 25)
MailConnect ==
    /\ mail_pc = "L32"
    /\ \E outcome \in Outcomes :
         /\ mail_log' = Append(mail_log, Logged("connect", outcome,
                                                [host |-> mail_host, port |-> 25]))
         /\ mail_pc' = AfterTry(outcome, "L33")
    /\ UNCHANGED <<num_layers, state, pc, frame, last, argv, message>>

\* smtpObj.login(mail_user, mail_pass)
MailLogin ==
    /\ mail_pc = "L33"
    /\ \E outcome \in Outcomes :
         /\ mail_log' = Append(mail_log, Logged("login", outcome, [user |-> mail_user]))
         /\ mail_pc' = AfterTry(outcome, "L34")
    /\ UNCHANGED <<num_layers, state, pc, frame, last, argv, message>>

\* smtpObj.sendmail(sender, receivers, message.as_string())
MailSendmail ==
    /\ mail_pc = "L34"
    /\ \E outcome \in Outcomes :
         /\ mail_log' = Append(mail_log, Logged("sendmail", outcome,
                                  [from |-> sender, to |-> receivers, msg |-> as_string(message)]))
         /\ mail_pc' = AfterTry(outcome, "L35")
    /\ UNCHANGED <<num_layers, state, pc, frame, last, argv, message>>

\* print("邮件发送成功")
MailPrintSuccess ==
    /\ mail_pc = "L35"
    /\ mail_log' = Append(mail_log, Logged("print", "ok", [what |-> "success"]))
    /\ mail_pc' = "exit"
    /\ UNCHANGED <<num_layers, state, pc, frame, last, argv, message>>

\* except smtplib.SMTPException: print("Error: 无法发送邮件")
MailPrintError ==
    /\ mail_pc = "L37"
    /\ mail_log' = Append(mail_log, Logged("print", "ok", [what |-> "error"]))
    /\ mail_pc' = "exit"
    /\ UNCHANGED <<num_layers, state, pc, frame, last, argv, message>>

\* ------------------------------------------------------------ state machine
NoFrame == [exc |-> "none", calls |-> <<>>]

NoCall == [op |-> "none"]


Outcome(exc) == IF exc = "none" THEN "returned" ELSE "raised"

\* model(src, tgt, bptt) called by the trainer
NMTForward ==
    /\ pc = "idle"
    /\ \E src \in Tokens, tgt \in Tokens, bptt \in BOOLEAN :
         \E M \in {NMTModel_forward(state, src, tgt, bptt)} :
            /\ state' = M.state
            /\ frame' = M
            /\ pc' = Outcome(M.exc)
    /\ UNCHANGED <<num_layers, last, mail_pc, argv, message, mail_log>>

\* decoder.init_state(src)
DecInitState ==
    /\ pc = "idle"
    /\ \E src \in Tokens :
         /\ state' = [state EXCEPT !["decoder"] = init_state(@, src)]
         /\ last' = [op |-> "init_state", tgt |-> src, memory_bank |-> None,
                     code_type |-> "-", step |-> None,
                     res |-> Raised("none", state'["decoder"], FALSE)]
    /\ pc' = "returned"
    /\ UNCHANGED <<num_layers, frame, mail_pc, argv, message, mail_log>>

\* decoder.detach_state()
DecDetachState ==
    /\ pc = "idle"
    /\ LET r == detach_state(state["decoder"])
       IN /\ state' = [state EXCEPT !["decoder"] = r.st]
          /\ last' = [op |-> "detach_state", tgt |-> None, memory_bank |-> None,
                      code_type |-> "-", step |-> None,
                      res |-> Raised(r.exc, r.st, TRUE)]
          /\ pc' = Outcome(r.exc)
    /\ UNCHANGED <<num_layers, frame, mail_pc, argv, message, mail_log>>

\* decoder(tgt, memory_bank, code_type=..., step=...)
DecForward ==
    /\ pc = "idle"
    /\ \E tgt \in Tokens, memory_bank \in {None} \cup {MemoryBank(n) : n \in 1..MaxLen},
          code_type \in CodeTypes, step \in Steps :
         \E r \in {forward(state["decoder"], num_layers, tgt, memory_bank, code_type, step)} :
            /\ state' = [state EXCEPT !["decoder"] = r.st]
            /\ last' = [op |-> "forward", tgt |-> tgt, memory_bank |-> memory_bank,
                        code_type |-> code_type, step |-> step, res |-> r]
            /\ pc' = Outcome(r.exc)
    /\ UNCHANGED <<num_layers, frame, mail_pc, argv, message, mail_log>>

\* the caller takes the result (or the exception) and goes on
Resume ==
    /\ pc # "idle"
    /\ pc' = "idle"
    /\ frame' = NoFrame
    /\ last' = NoCall
    /\ UNCHANGED <<num_layers, state, mail_pc, argv, message, mail_log>>

\* the modules as their constructors leave them; the mail script not started
Init ==
    /\ num_layers = MaxLayers
    /\ state = [m \in Modules |-> EmptyDict]     \* self.state = {}
    /\ pc = "idle"
    /\ frame = NoFrame
    /\ last = NoCall
    /\ mail_pc = "off"
    /\ argv = <<>>
    /\ message = None
    /\ mail_log = <<>>

Next == NMTForward \/ Resume

\* the NMT model: encoder and decoder stacks of MaxLayers layers, driven through
\* NMTModel.forward
Spec == Init /\ [][Next]_vars

\* a decoder of any depth up to MaxLayers, as its constructor leaves it
InitDecoder ==
    /\ num_layers \in 0..MaxLayers
    /\ state = [m \in Modules |-> EmptyDict]     \* self.state = {}
    /\ pc = "idle"
    /\ frame = NoFrame
    /\ last = NoCall
    /\ mail_pc = "off"
    /\ argv = <<>>
    /\ message = None
    /\ mail_log = <<>>

NextDecoder == DecInitState \/ DecDetachState \/ DecForward \/ Resume

\* one decoder driven through its own methods, stepwise decoding included
SpecDecoder == InitDecoder /\ [][NextDecoder]_vars

NextMail ==
    \/ MailPrintArg \/ MailBuildMessage \/ MailConnect \/ MailLogin
    \/ MailSendmail \/ MailPrintSuccess \/ MailPrintError

\* the mail script started with some command line; no model constructed
InitMail ==
    /\ mail_pc = "L22"
    /\ argv \in Argvs
    /\ message = None
    /\ mail_log = <<>>
    /\ num_layers = 0
    /\ state = [m \in Modules |-> EmptyDict]
    /\ pc = "idle"
    /\ frame = NoFrame
    /\ last = NoCall

SpecMail == InitMail /\ [][NextMail]_vars

\* ============================================================== properties
IsForward(e, module, code_type) ==
    e.op = "forward" /\ e.module = module /\ e.code_type = code_type

IsInitState(e, module) == e.op = "init_state" /\ e.module = module

\* the argument NMTModel.forward hands to module.init_state
InitArg(module) == IF module = "decoder" THEN frame.src ELSE frame.tgt

NoInitState == \A k \in 1..Len(frame.calls) : frame.calls[k].op # "init_state"

\* every 'dec'-mode pass of a module comes after that module's init_state
InitBeforeDec ==
    \A m \in Modules : \A k \in 1..Len(frame.calls) :
        IsForward(frame.calls[k], m, "dec") =>
            \E j \in 1..(k - 1) :
                IsInitState(frame.calls[j], m) /\ frame.calls[j].arg = InitArg(m)

\* module m's 'dec'-mode pass ran to its end
DecPassCompleted(m) ==
    \E k \in 1..Len(frame.calls) :
        IsForward(frame.calls[k], m, "dec") /\ frame.calls[k].exc = "none"

\* module m's 'dec'-mode pass built its padding mask from the src its state held
\* when NMTModel.forward was entered
DecPassUsedEarlierState(m) ==
    \E k \in 1..Len(frame.calls) :
        /\ IsForward(frame.calls[k], m, "dec")
        /\ frame.calls[k].exc = "none"
        /\ frame.calls[k].read_src
        /\ frame.calls[k].src_pad_mask.rows[1] =
               [i \in 1..Len(frame.state0[m]["src"]) |-> frame.state0[m]["src"][i] = pad_idx]

\* C1: a forward call with step == 0 initialises the layer cache and then
\* decodes: the call returns, state['cache'] then holds exactly the entries
\* layer_0 .. layer_{num_layers-1}, each with the four slots memory_keys,
\* memory_values, self_keys and self_values, and layer i was given entry layer_i.
C1_StepZeroInitialisesCache ==
    (pc # "idle" /\ last.op = "forward" /\ last.step = PyInt(0)) =>
        /\ pc = "returned"
        /\ "cache" \in DOMAIN state["decoder"]
        /\ state["decoder"]["cache"].kind = "dict"
        /\ DOMAIN state["decoder"]["cache"].entries = {<<"layer", i>> : i \in 0..(num_layers - 1)}
        /\ \A k \in DOMAIN state["decoder"]["cache"].entries :
             DOMAIN state["decoder"]["cache"].entries[k] =
                 {"memory_keys", "memory_values", "self_keys", "self_values"}
        /\ Len(last.res.caches) = num_layers
        /\ \A i \in 0..(num_layers - 1) : last.res.caches[i + 1].key = <<"layer", i>>

\* C2 as stated: with bptt False each module's init_state precedes its 'dec'
\* pass; with bptt True no init_state is called, the states stay as the previous
\* call left them, and both 'dec' passes still complete.
C2_BpttKeepsStateAndCompletes ==
    pc # "idle" =>
        IF frame.bptt = FALSE
        THEN InitBeforeDec
        ELSE /\ NoInitState
             /\ frame.state = frame.state0
             /\ \A m \in Modules : DecPassCompleted(m)

\* C2 amended: with bptt False each module's init_state (decoder with src,
\* encoder with tgt) precedes its 'dec' pass; with bptt True no init_state is
\* called and the states stay as the previous call left them; the 'dec' passes
\* then complete, reading state['src'] as left by the earlier init_state,
\* provided an earlier call initialised the states, and otherwise the decoder's
\* 'dec' pass raises KeyError and the call does not return.
C2_BpttKeepsState ==
    pc # "idle" =>
        IF frame.bptt = FALSE
        THEN InitBeforeDec /\ (pc = "returned" => \A m \in Modules : DecPassCompleted(m))
        ELSE /\ NoInitState
             /\ frame.state = frame.state0
             /\ IF \A m \in Modules : "src" \in DOMAIN frame.state0[m]
                THEN pc = "returned" /\ \A m \in Modules : DecPassUsedEarlierState(m)
                ELSE /\ pc = "raised"
                     /\ frame.exc = "KeyError"
                     /\ IsForward(frame.calls[Len(frame.calls)], "decoder", "dec")
                     /\ ~DecPassCompleted("decoder")

\* C2 witness: a bptt call returned whose decoder state still held a src other
\* than the src of this call.
C2_Witness ==
    /\ pc = "returned"
    /\ frame.bptt = TRUE
    /\ frame.state0["decoder"]["src"] # frame.src
    /\ frame.state0["encoder"]["src"] # frame.tgt

\* C3: the decoder's 'dec' pass receives tgt without its last time step, the
\* encoder's 'dec' pass receives src without its last time step, and the two
\* 'enc' passes receive the full src and tgt; a call that returns made exactly
\* these four passes.
C3_DecPassesExcludeLast ==
    pc # "idle" =>
        /\ \A k \in 1..Len(frame.calls) :
             LET e == frame.calls[k]
             IN /\ IsForward(e, "decoder", "dec") =>
                     /\ Len(e.arg) = Len(frame.tgt) - 1
                     /\ \A i \in 1..Len(e.arg) : e.arg[i] = frame.tgt[i]
                /\ IsForward(e, "encoder", "dec") =>
                     /\ Len(e.arg) = Len(frame.src) - 1
                     /\ \A i \in 1..Len(e.arg) : e.arg[i] = frame.src[i]
                /\ IsForward(e, "encoder", "enc") => e.arg = frame.src
                /\ IsForward(e, "decoder", "enc") => e.arg = frame.tgt
        /\ pc = "returned" =>
             \A m \in Modules : \A c \in CodeTypes :
                 Cardinality({k \in 1..Len(frame.calls) : IsForward(frame.calls[k], m, c)}) = 1

\* C3 witness: a call returned whose src and tgt each end in a step that differs
\* from their first step.
C3_Witness ==
    /\ pc = "returned"
    /\ Len(frame.tgt) = 2 /\ frame.tgt[1] # frame.tgt[2]
    /\ Len(frame.src) = 2 /\ frame.src[1] # frame.src[2]

IsSublayer(o) == o.op \in {"self_attn", "context_attn", "feed_forward"}

\* C4: the layers are applied in ascending index order along one stream, then
\* one final layer norm; each layer runs self-attention, cross-attention to the
\* memory bank, feed-forward when code_type is 'dec', and self-attention,
\* feed-forward otherwise; a pass that is not 'dec' has no memory bank, no source
\* padding mask and does not read state['src'].
C4_LayerOrder ==
    (pc # "idle" /\ last.op = "forward") =>
        /\ last.code_type # "dec" =>
             /\ ~last.res.read_src
             /\ last.res.src_memory_bank = None
             /\ last.res.src_pad_mask = None
        /\ pc = "returned" =>
             LET ops == last.res.out.ops
                 sub == SelectSeq(ops, IsSublayer)
                 order == IF last.code_type = "dec"
                          THEN <<"self_attn", "context_attn", "feed_forward">>
                          ELSE <<"self_attn", "feed_forward">>
                 k == Len(order)
             IN /\ Len(sub) = k * num_layers
                /\ \A j \in 1..Len(sub) :
                     /\ sub[j].layer = (j - 1) \div k
                     /\ sub[j].op = order[((j - 1) % k) + 1]
                     /\ sub[j].op = "context_attn" =>
                          /\ sub[j].memory.kind = "tensor"
                          /\ sub[j].memory.len = last.memory_bank.len
                          /\ sub[j].mask = last.res.src_pad_mask
                /\ ops[1].op = "embeddings"
                /\ ops[Len(ops)].op = "layer_norm"
                /\ \A j \in 1..(Len(ops) - 1) : ops[j].op # "layer_norm"

\* C4 witness: a 'dec' pass through the deepest stack returned.
C4_Witness ==
    /\ pc = "returned"
    /\ last.op = "forward"
    /\ last.code_type = "dec"
    /\ num_layers = MaxLayers
    /\ num_layers >= 2

\* the text a base64 body of the mail decodes to
Base64Bytes(g) ==
    LET v == g[1] * 262144 + g[2] * 4096 + (IF g[3] = 64 THEN 0 ELSE g[3] * 64)
             + (IF g[4] = 64 THEN 0 ELSE g[4])
    IN IF g[3] = 64 THEN <<v \div 65536>>
       ELSE IF g[4] = 64 THEN <<v \div 65536, (v \div 256) % 256>>
       ELSE <<v \div 65536, (v \div 256) % 256, v % 256>>

RECURSIVE Base64Decode(_)
Base64Decode(body) ==
    IF Len(body) < 4 THEN <<>>
    ELSE Base64Bytes(SubSeq(body, 1, 4)) \o Base64Decode(SubSeq(body, 5, Len(body)))

RECURSIVE Utf8Decode(_)
Utf8Decode(bytes) ==
    IF bytes = <<>> THEN <<>>
    ELSE IF bytes[1] < 128 THEN <<bytes[1]>> \o Utf8Decode(SubSeq(bytes, 2, Len(bytes)))
    ELSE IF bytes[1] < 224
         THEN <<(bytes[1] - 192) * 64 + (bytes[2] - 128)>> \o Utf8Decode(SubSeq(bytes, 3, Len(bytes)))
    ELSE <<(bytes[1] - 224) * 4096 + (bytes[2] - 128) * 64 + (bytes[3] - 128)>>
         \o Utf8Decode(SubSeq(bytes, 4, Len(bytes)))

\* C5: every sendmail carries the first command-line argument as its body
\* (the transferred base64 text decodes to exactly that argument), goes to the
\* hard-coded receiver, and comes after a completed connect and then a completed
\* login; login is only attempted after a completed connect; the success message
\* is printed only after sendmail has returned.
C5_MailOrder ==
    \A k \in 1..Len(mail_log) :
        LET e == mail_log[k]
        IN /\ e.call = "sendmail" =>
                /\ Len(argv) >= 2
                /\ e.data.to = <<"liuyu@hit-mtlab.net">>
                /\ Utf8Decode(Base64Decode(e.data.msg.body)) = argv[2]
                /\ \E i \in 1..(k - 1) : \E j \in (i + 1)..(k - 1) :
                     /\ mail_log[i].call = "connect" /\ mail_log[i].outcome = "ok"
                     /\ mail_log[j].call = "login" /\ mail_log[j].outcome = "ok"
           /\ e.call = "login" =>
                \E i \in 1..(k - 1) :
                    mail_log[i].call = "connect" /\ mail_log[i].outcome = "ok"
           /\ (e.call = "print" /\ e.data.what = "success") =>
                /\ k > 1
                /\ mail_log[k - 1].call = "sendmail"
                /\ mail_log[k - 1].outcome = "ok"

\* C5 witness: the script ran to the success message with an argument that
\* holds a multi-byte character.
C5_Witness ==
    /\ mail_pc = "exit"
    /\ mail_log[Len(mail_log)].data = [what |-> "success"]
    /\ mail_log[Len(mail_log) - 1].call = "sendmail"
    /\ mail_log[Len(mail_log) - 1].outcome = "ok"
    /\ Len(argv[2]) = 2
    /\ argv[2][1] = 8364
    /\ argv[2][2] = 233

\* C6: NMTModel.forward returns the decoder output of shape (tgt_len, batch,
\* hidden) and, second, a dictionary of attention distributions.
C6_ReturnsOutputAndAttention ==
    pc = "returned" =>
        /\ frame.ret[1].kind = "tensor"
        /\ frame.ret[1].shape = <<"len", "batch", "dim">>
        /\ frame.ret[1].len = Len(frame.tgt)
        /\ frame.ret[2].kind = "dict"

====
